---- MODULE Spec2Model ----
(***************************************************************************)
(* Model of the JOSAA CSV API (src/app.js): the lazily loaded, process-    *)
(* wide record store (records, dataLoaded, initData, ensureDataLoaded) and *)
(* the /api/search handler (parameter parsing, tolerance-adjusted ranks,   *)
(* the two filters, the two sorts, truncation and the 404/200 decision).   *)
(*                                                                         *)
(* JavaScript values are modelled as follows.                              *)
(*   - A number is a record [k, v]: k = "num" with the integer v, k =      *)
(*     "nan", or k = "inf" with the sign v.  The tolerance is the only     *)
(*     non-integer number of the handler; it is held in HALVES (v = 5 is   *)
(*     2.5), which is exact in binary floating point.                      *)
(*   - A numeric query parameter and a numeric CSV field is the string the *)
(*     code receives, a sequence of one-character strings, or Undefined.   *)
(*   - resver, gend and main are tested for truthiness only; "" stands for *)
(*     both the absent and the empty parameter.                            *)
(***************************************************************************)
EXTENDS Integers, Sequences, FiniteSets, TLC

\* ------------------------------------------------------------------ bounds
\* Longest CSV file (number of rows) the search specification loads.
MaxRows == 2
\* Number of HTTP requests that arrive in the loading specification.
NumReqs == 2

\* --------------------------------------------------------- JS number values
Num(v) == [k |-> "num", v |-> v]
NaN == [k |-> "nan", v |-> 0]
Inf(s) == [k |-> "inf", v |-> s]

\* isNaN(x) for a number x
isNaN(x) == x.k = "nan"

\* req.query.<name> of a parameter that was not sent
Undefined == <<"undefined">>

DigitVal ==
  [c \in {"0", "1", "2", "3", "4", "5", "6", "7", "8", "9"} |->
     CASE c = "0" -> 0 [] c = "1" -> 1 [] c = "2" -> 2 [] c = "3" -> 3
       [] c = "4" -> 4 [] c = "5" -> 5 [] c = "6" -> 6 [] c = "7" -> 7
       [] c = "8" -> 8 [] c = "9" -> 9]

IsDigit(c) == c \in DOMAIN DigitVal

\* The longest run of decimal digits of s that starts at position i:
\* n digits read, v their value.
RECURSIVE ScanDigits(_, _, _, _)
ScanDigits(s, i, n, v) ==
  IF i <= Len(s) /\ IsDigit(s[i])
  THEN ScanDigits(s, i + 1, n + 1, 10 * v + DigitVal[s[i]])
  ELSE [n |-> n, v |-> v]

HasSign(s) == Len(s) > 0 /\ s[1] \in {"-", "+"}
IsNeg(s) == Len(s) > 0 /\ s[1] = "-"

\* parseInt(s) of a string: optional sign, then the leading decimal digits;
\* NaN when there is none.  (Leading white space and the 0x prefix do not
\* occur in the strings drawn here.)
parseInt(s) ==
  LET start == IF HasSign(s) THEN 2 ELSE 1
      r == ScanDigits(s, start, 0, 0)
  IN IF r.n = 0 THEN NaN
     ELSE Num(IF IsNeg(s) THEN 0 - r.v ELSE r.v)

InfinityLit == <<"I", "n", "f", "i", "n", "i", "t", "y">>

\* parseFloat(s), in halves: optional sign, then the literal Infinity or
\* digits with an optional fraction.  The strings drawn here have a
\* fraction of at most one digit, 0 or 5, so the value is a whole number of
\* halves and the double is exact.
parseFloat(s) ==
  LET start == IF HasSign(s) THEN 2 ELSE 1
      sign == IF IsNeg(s) THEN 0 - 1 ELSE 1
      ip == ScanDigits(s, start, 0, 0)
      dot == start + ip.n
      hasDot == dot <= Len(s) /\ s[dot] = "."
      fp == IF hasDot THEN ScanDigits(s, dot + 1, 0, 0) ELSE [n |-> 0, v |-> 0]
      half == IF fp.n > 0 /\ s[dot + 1] = "5" THEN 1 ELSE 0
  IN IF Len(s) >= start + 7 /\ SubSeq(s, start, start + 7) = InfinityLit
     THEN Inf(sign)
     ELSE IF ip.n = 0 /\ fp.n = 0 THEN NaN
     ELSE Num(sign * (2 * ip.v + half))

\* Division that rounds toward zero (d > 0).
TruncDiv(n, d) == IF n >= 0 THEN n \div d ELSE 0 - ((0 - n) \div d)

\* Rounding down instead of toward zero.
parseIntRoundingDown(n, d) == Num(n \div d)

\* parseInt(x) of a number x (lines 260-265): x is written in decimal and
\* read back up to the decimal point, which rounds toward zero; NaN and the
\* infinities give NaN.  x is the exact quotient n / d here; the ranks and
\* tolerances drawn keep |x| in the range where JavaScript writes a number
\* without an exponent (x = 0 or 1e-6 <= |x| < 1e21).
parseIntOfQuotient(n, d) == Num(TruncDiv(n, d))

\* ------------------------------------------------------------ lookup tables
reservations ==
  [c \in {"O", "E", "ON", "SC", "ST", "OP", "ONP", "EP", "SCP", "STP"} |->
     CASE c = "O" -> "OPEN"
       [] c = "E" -> "EWS"
       [] c = "ON" -> "OBC-NCL"
       [] c = "SC" -> "SC"
       [] c = "ST" -> "ST"
       [] c = "OP" -> "OPEN (PwD)"
       [] c = "ONP" -> "OBC-NCL (PwD)"
       [] c = "EP" -> "EWS (PwD)"
       [] c = "SCP" -> "SC (PwD)"
       [] c = "STP" -> "ST (PwD)"]

genders ==
  [g \in {"M", "F"} |->
     IF g = "M" THEN "Gender-Neutral"
     ELSE "Female-only (including Supernumerary)"]

\* row['SeatType'] === reservations[resver]; a code that is no key of the
\* table gives undefined, which no CSV string equals.
SeatTypeMatches(row, resver) ==
  resver \in DOMAIN reservations /\ row.SeatType = reservations[resver]

\* gend === 'F' || row['Gender'] === genders[gend]
GenderMatches(row, gend) ==
  gend = "F" \/ (gend \in DOMAIN genders /\ row.Gender = genders[gend])

\* a >= b on numbers: false when either side is NaN
JsGE(a, b) ==
  CASE a.k = "nan" \/ b.k = "nan" -> FALSE
    [] a.k = "inf" /\ b.k = "inf" -> a.v >= b.v
    [] a.k = "inf" -> a.v > 0
    [] b.k = "inf" -> b.v < 0
    [] OTHER -> a.v >= b.v

\* a === b on numbers: NaN equals nothing
JsStrictEq(a, b) == a.k # "nan" /\ b.k # "nan" /\ a = b

\* ------------------------------------------------- /api/search: parameters
DefaultTolaranHalves == 5
DefaultReqlen == 20

\* lines 240-246
ParamResver(q) == IF q.resver = "" THEN "O" ELSE q.resver
ParamGend(q) == IF q.gend = "" THEN "M" ELSE q.gend
ParamStid(q) == IF q.stid # Undefined THEN parseInt(q.stid) ELSE Num(0)
ParamAdv(q) == IF q.adv # Undefined THEN parseInt(q.adv) ELSE Num(0)
ParamTolaran(q) ==
  IF q.tolaran # Undefined THEN parseFloat(q.tolaran)
  ELSE Num(DefaultTolaranHalves)
ParamReqlen(q) ==
  IF q.reqlen # Undefined THEN parseInt(q.reqlen) ELSE Num(DefaultReqlen)

\* !main: the parameter is absent or empty
MainFalsy(q) == q.main = Undefined \/ q.main = <<>>

\* line 248
InvalidParams(q) ==
  \/ ParamResver(q) = ""
  \/ ParamGend(q) = ""
  \/ isNaN(ParamStid(q))
  \/ isNaN(ParamAdv(q))
  \/ isNaN(ParamTolaran(q))
  \/ MainFalsy(q)
  \/ isNaN(ParamReqlen(q))

\* lines 259-266: parseInt(rank * (100 - mult * tolaran) / 100) with
\* mult = 2 for gend === "F" and 1 otherwise; tolaran is in halves, so the
\* quotient is rank * (200 - mult * halves) / 200.  With an infinite
\* tolaran the product is an infinity or NaN, and parseInt gives NaN.
Multiplier(gend) == IF gend = "F" THEN 2 ELSE 1

RankCorrected(rank, tolaran, gend) ==
  IF tolaran.k = "inf" THEN NaN
  ELSE parseIntOfQuotient(rank.v * (200 - Multiplier(gend) * tolaran.v), 200)

\* --------------------------------------------------- /api/search: filtering
\* lines 290-296, the predicate of the advanced filter
AdvRowMatches(row, resver, gend, advrankcorrected) ==
  /\ row.Type = "IIT"
  /\ row.Quota = "AI"
  /\ SeatTypeMatches(row, resver)
  /\ GenderMatches(row, gend)
  /\ JsGE(parseInt(row.ClosingRank), advrankcorrected)

\* The main filter without the home-state clause.
MainsRowMatchesAllIndiaOnly(row, resver, gend, stid, mainrankcorrected) ==
  /\ row.Type # "IIT"
  /\ row.Quota = "AI"
  /\ SeatTypeMatches(row, resver)
  /\ GenderMatches(row, gend)
  /\ JsGE(parseInt(row.ClosingRank), mainrankcorrected)

\* lines 298-305, the predicate of the main filter
MainsRowMatches(row, resver, gend, stid, mainrankcorrected) ==
  /\ row.Type # "IIT"
  /\ (row.Quota = "AI" \/ JsStrictEq(parseInt(row.StateId), stid))
  /\ SeatTypeMatches(row, resver)
  /\ GenderMatches(row, gend)
  /\ JsGE(parseInt(row.ClosingRank), mainrankcorrected)

\* Array.prototype.filter: the matching elements, in the array's order
RECURSIVE FilterAdv(_, _, _, _)
FilterAdv(rows, resver, gend, thr) ==
  IF rows = <<>> THEN <<>>
  ELSE (IF AdvRowMatches(Head(rows), resver, gend, thr)
        THEN <<Head(rows)>> ELSE <<>>)
       \o FilterAdv(Tail(rows), resver, gend, thr)

RECURSIVE FilterMains(_, _, _, _, _)
FilterMains(rows, resver, gend, stid, thr) ==
  IF rows = <<>> THEN <<>>
  ELSE (IF MainsRowMatches(Head(rows), resver, gend, stid, thr)
        THEN <<Head(rows)>> ELSE <<>>)
       \o FilterMains(Tail(rows), resver, gend, stid, thr)

\* ----------------------------------------------------- /api/search: sorting
\* The comparator without the tie-break on the opening rank.
SortCompareClosingOnly(a, b) ==
  parseInt(a.ClosingRank).v - parseInt(b.ClosingRank).v

\* lines 309-316 and 317-324, the comparator: < 0, 0 or > 0.  The rows that
\* reach the sort passed the rank comparison, so their closing rank is a
\* number; the rows drawn here have a numeric opening rank too.
SortCompare(a, b) ==
  LET aClosing == parseInt(a.ClosingRank).v
      bClosing == parseInt(b.ClosingRank).v
      aOpening == parseInt(a.OpeningRank).v
      bOpening == parseInt(b.OpeningRank).v
  IN IF aClosing # bClosing THEN aClosing - bClosing
     ELSE aOpening - bOpening

\* A sort that leaves the array as it is.
InsertAtEnd(sorted, x) == Append(sorted, x)

\* Array.prototype.sort is stable: x goes after every element that does not
\* compare greater than it.
RECURSIVE InsertSorted(_, _)
InsertSorted(sorted, x) ==
  IF sorted = <<>> THEN <<x>>
  ELSE IF SortCompare(Head(sorted), x) > 0 THEN <<x>> \o sorted
  ELSE <<Head(sorted)>> \o InsertSorted(Tail(sorted), x)

RECURSIVE SortFrom(_, _)
SortFrom(sorted, rest) ==
  IF rest = <<>> THEN sorted
  ELSE SortFrom(InsertSorted(sorted, Head(rest)), Tail(rest))

SortRows(rows) == SortFrom(<<>>, rows)

\* -------------------------------------------------- /api/search: truncation
Min(a, b) == IF a <= b THEN a ELSE b
Max(a, b) == IF a >= b THEN a ELSE b

\* lines 325-326: Math.min(reqlen, array.length)
LimitLen(reqlen, rows) == Min(reqlen, Len(rows))

\* lines 332-333: array.slice(0, end); a negative end counts from the end
\* of the array
Slice0(rows, end) ==
  LET e == IF end < 0 THEN Max(Len(rows) + end, 0) ELSE Min(end, Len(rows))
  IN SubSeq(rows, 1, e)

\* ------------------------------------------------ /api/search: the handler
NoRows == <<>>
Response(status, error, adv, mains) ==
  [status |-> status, error |-> error, adv |-> adv, mains |-> mains]

\* Lines 240-334 on the array `rows`: the handler's locals and its response.
\* stage tells how far the handler got: "invalid" (line 249), "nan_main"
\* (line 254) or "ranked" (lines 257-334).
SearchLocals(rows, q) ==
  LET resver == ParamResver(q)
      gend == ParamGend(q)
      stid == ParamStid(q)
      adv == ParamAdv(q)
      tolaran == ParamTolaran(q)
      reqlen == ParamReqlen(q)
      mainrank == IF MainFalsy(q) THEN NaN ELSE parseInt(q.main)
      blank == [q |-> q, stage |-> "invalid", resver |-> resver, gend |-> gend,
                stid |-> stid, adv |-> adv, tolaran |-> tolaran,
                reqlen |-> reqlen, mainrank |-> mainrank,
                mainrankcorrected |-> NaN, advrankcorrected |-> NaN,
                advFiltered |-> NoRows, mainsFiltered |-> NoRows,
                advSorted |-> NoRows, mainsSorted |-> NoRows,
                len1 |-> 0, len2 |-> 0,
                res |-> Response(400, "Please provide valid query parameters.",
                                 NoRows, NoRows)]
  IN IF InvalidParams(q) THEN blank
     ELSE IF isNaN(mainrank)
     THEN [blank EXCEPT !.stage = "nan_main",
                        !.res = Response(400, "Value must be a number.",
                                         NoRows, NoRows)]
     ELSE
       LET mainrankcorrected == RankCorrected(mainrank, tolaran, gend)
           advrankcorrected == RankCorrected(adv, tolaran, gend)
           advFiltered ==
             IF adv.v # 0
             THEN FilterAdv(rows, resver, gend, advrankcorrected)
             ELSE NoRows
           mainsFiltered ==
             FilterMains(rows, resver, gend, stid, mainrankcorrected)
           advSorted == SortRows(advFiltered)
           mainsSorted == SortRows(mainsFiltered)
           len1 == LimitLen(reqlen.v, advSorted)
           len2 == LimitLen(reqlen.v, mainsSorted)
       IN [blank EXCEPT
             !.stage = "ranked",
             !.mainrankcorrected = mainrankcorrected,
             !.advrankcorrected = advrankcorrected,
             !.advFiltered = advFiltered,
             !.mainsFiltered = mainsFiltered,
             !.advSorted = advSorted,
             !.mainsSorted = mainsSorted,
             !.len1 = len1,
             !.len2 = len2,
             !.res = IF len1 + len2 = 0
                     THEN Response(404, "No results found for the given criteria.",
                                   NoRows, NoRows)
                     ELSE Response(200, "", Slice0(advSorted, len1),
                                   Slice0(mainsSorted, len2))]

\* ------------------------------------------------------------ the CSV rows
Row(inst, type, quota, state, seat, gender, opening, closing) ==
  [Institute |-> inst, Type |-> type, Quota |-> quota, StateId |-> state,
   SeatType |-> seat, Gender |-> gender,
   OpeningRank |-> opening, ClosingRank |-> closing]

GN == "Gender-Neutral"
FO == "Female-only (including Supernumerary)"

\* The rows a CSV file is made of.  IitB opens after it closes and closes
\* where IitA does; NitB has the ranks of NitA, written with a leading zero;
\* IitC is an IIT row outside the AI quota; NitD closes at 15P.
IitA == Row("IIT-A", "IIT", "AI", <<>>, "OPEN", GN, <<"3">>, <<"9">>)
IitB == Row("IIT-B", "IIT", "AI", <<>>, "OPEN", FO, <<"1", "2">>, <<"9">>)
IitC == Row("IIT-C", "IIT", "HS", <<"7">>, "OPEN", GN, <<"4">>, <<"3", "0">>)
NitA == Row("NIT-A", "NIT", "HS", <<"7">>, "OPEN", GN, <<"5">>, <<"2", "0">>)
NitB == Row("NIT-B", "NIT", "AI", <<>>, "OPEN", GN, <<"0", "5">>, <<"2", "0">>)
NitC == Row("NIT-C", "NIT", "OS", <<"3">>, "SC", FO, <<"2">>, <<"9">>)
NitD == Row("NIT-D", "NIT", "AI", <<>>, "OPEN", GN, <<"8">>, <<"1", "5", "P">>)

RowPool == {IitA, IitB, IitC, NitA, NitB, NitC, NitD}

IsInjective(f) == \A i, j \in DOMAIN f : f[i] = f[j] => i = j

\* The CSV files of the search specification: up to MaxRows distinct rows,
\* in any order.
Datasets ==
  UNION {{f \in [1..n -> RowPool] : IsInjective(f)} : n \in 0..MaxRows}

\* The CSV files of the loading specification.
LoadFiles == {<<NitD, NitA>>, <<IitA>>}

\* -------------------------------------------------------------- the queries
Query(resver, gend, stid, adv, tolaran, main, reqlen) ==
  [resver |-> resver, gend |-> gend, stid |-> stid, adv |-> adv,
   tolaran |-> tolaran, main |-> main, reqlen |-> reqlen]

\* The queries of the search specification.
Queries ==
  {Query(resver, gend, stid, adv, tolaran, main, reqlen) :
     resver \in {"", "SC", "XX"},
     gend \in {"", "F"},
     stid \in {Undefined, <<"7">>},
     adv \in {Undefined, <<"0">>, <<"1", "2">>},
     tolaran \in {Undefined, <<"7", ".", "5">>, <<"-", "5">>,
                  <<"1", "1", "0">>, InfinityLit, <<"x">>},
     main \in {<<"x">>, <<"1", "0">>, <<"2", "1">>},
     reqlen \in {Undefined, <<"-", "1">>, <<"0">>, <<"1">>}}

\* The queries of the loading specification: one that matches, one that
\* matches nothing, one that is rejected.
LoadQueries ==
  {Query("", "", <<"7">>, Undefined, Undefined, <<"1", "0">>, Undefined),
   Query("SC", "", Undefined, Undefined, Undefined, <<"1", "0">>, Undefined),
   Query("", "", Undefined, Undefined, Undefined, Undefined, Undefined)}

\* --------------------------------------------------------------- the state
VARIABLES
  csvFile,        \* the rows of the file at CSV_FILE_PATH
  records,        \* let records (line 34)
  dataLoaded,     \* let dataLoaded (line 37)
  pc,             \* where each caller of initData is
  loadsStarted,   \* number of calls of loadCSVData so far
  recordsWrites,  \* number of assignments to records (line 131) so far
  locals,         \* the locals of the last /api/search handler that ran
  resp            \* the last response sent

vars == <<csvFile, records, dataLoaded, pc, loadsStarted, recordsWrites,
          locals, resp>>

\* The callers of initData: the listen callback (line 367) and the requests.
StartupProc == 0
Reqs == 1..NumReqs
Procs == {StartupProc} \cup Reqs

NoLocals == [stage |-> "none"]
NoResponse == [status |-> 0, error |-> "", adv |-> NoRows, mains |-> NoRows]

Init ==
  /\ csvFile \in LoadFiles
  /\ records = <<>>
  /\ dataLoaded = FALSE
  /\ pc = [p \in Procs |-> "idle"]
  /\ loadsStarted = 0
  /\ recordsWrites = 0
  /\ locals = NoLocals
  /\ resp = NoResponse

\* lines 232-343 after the data is there: the handler runs on `rows`
HandleSearch(rows, q) ==
  /\ locals' = SearchLocals(rows, q)
  /\ resp' = locals'.res

\* lines 185-187
HandleCount(rows) ==
  /\ resp' = [status |-> 200, error |-> "", adv |-> NoRows, mains |-> NoRows,
              count |-> Len(rows)]
  /\ UNCHANGED locals

\* initData up to its await (lines 112-131): loadCSVData is called and the
\* caller waits for it.
StartLoad(p, waiting) ==
  /\ loadsStarted' = loadsStarted + 1
  /\ pc' = [pc EXCEPT ![p] = waiting]
  /\ UNCHANGED <<csvFile, records, dataLoaded, recordsWrites, locals, resp>>

\* lines 364-370: the listen callback calls initData before any request is
\* served.
Startup ==
  /\ \A p \in Procs : pc[p] = "idle"
  /\ IF dataLoaded
     THEN /\ pc' = [pc EXCEPT ![StartupProc] = "done"]
          /\ UNCHANGED <<csvFile, records, dataLoaded, loadsStarted,
                         recordsWrites, locals, resp>>
     ELSE StartLoad(StartupProc, "await_startup")

\* GET /api/search arrives (lines 232-237) with a query of Q: with the data
\* loaded the whole handler runs; otherwise initData is called and awaited.
SearchArrive(p, Q) ==
  /\ pc[p] = "idle"
  /\ IF dataLoaded
     THEN /\ \E q \in Q : HandleSearch(records, q)
          /\ pc' = [pc EXCEPT ![p] = "done"]
          /\ UNCHANGED <<csvFile, records, dataLoaded, loadsStarted,
                         recordsWrites>>
     ELSE StartLoad(p, "await_search")

\* GET /api/records/count arrives: ensureDataLoaded (lines 153-158), then
\* the handler.
CountArrive(p) ==
  /\ pc[p] = "idle"
  /\ IF dataLoaded
     THEN /\ HandleCount(records)
          /\ pc' = [pc EXCEPT ![p] = "done"]
          /\ UNCHANGED <<csvFile, records, dataLoaded, loadsStarted,
                         recordsWrites>>
     ELSE StartLoad(p, "await_count")

Awaiting(p) == pc[p] \in {"await_startup", "await_search", "await_count"}

\* loadCSVData resolves (lines 55-58): initData goes on from line 131 to
\* its end, and the caller goes on after its await.
LoadResolve(p) ==
  /\ Awaiting(p)
  /\ records' = csvFile
  /\ recordsWrites' = recordsWrites + 1
  /\ dataLoaded' = TRUE
  /\ pc' = [pc EXCEPT ![p] = "done"]
  /\ CASE pc[p] = "await_search" ->
            \E q \in LoadQueries : HandleSearch(csvFile, q)
       [] pc[p] = "await_count" -> HandleCount(csvFile)
       [] OTHER -> UNCHANGED <<locals, resp>>
  /\ UNCHANGED <<csvFile, loadsStarted>>

\* loadCSVData rejects (lines 43-48, 59-62): the catch of initData (lines
\* 142-149) clears dataLoaded and throws again.  /api/search answers 500
\* (lines 335-342); the startup call logs (lines 367-369); the rejection of
\* ensureDataLoaded is left to Express, which answers 500 through the error
\* handler (lines 346-353) or not at all, depending on its version.
LoadReject(p) ==
  /\ Awaiting(p)
  /\ dataLoaded' = FALSE
  /\ pc' = [pc EXCEPT ![p] = "done"]
  /\ CASE pc[p] = "await_search" ->
            resp' = Response(500, "Internal server error", NoRows, NoRows)
       [] pc[p] = "await_count" ->
            \/ resp' = Response(500, "Internal server error", NoRows, NoRows)
            \/ resp' = resp
       [] OTHER -> resp' = resp
  /\ UNCHANGED <<csvFile, records, loadsStarted, recordsWrites, locals>>

Next ==
  \/ Startup
  \/ \E p \in Reqs : SearchArrive(p, LoadQueries)
  \/ \E p \in Reqs : CountArrive(p)
  \/ \E p \in Procs : LoadResolve(p)
  \/ \E p \in Procs : LoadReject(p)

Spec == Init /\ [][Next]_vars

\* ------------------------------------------------ the search specification
\* The store is loaded (the startup call of initData has resolved) with any
\* of the CSV files, and a search request with any of the queries arrives.
InitSearch ==
  /\ csvFile \in Datasets
  /\ records = csvFile
  /\ dataLoaded = TRUE
  /\ pc = [p \in Procs |-> IF p = StartupProc THEN "done" ELSE "idle"]
  /\ loadsStarted = 1
  /\ recordsWrites = 1
  /\ locals = NoLocals
  /\ resp = NoResponse

\* One search request arrives in each behaviour: a search changes nothing
\* that a later one reads.
FirstReq == CHOOSE p \in Reqs : \A r \in Reqs : p <= r

NextSearch == SearchArrive(FirstReq, Queries)

SearchSpec == InitSearch /\ [][NextSearch]_vars

\* ------------------------------------------------------------------ claims
SeqToSet(s) == {s[i] : i \in DOMAIN s}
Ranked == locals.stage = "ranked"
Closing(row) == parseInt(row.ClosingRank).v
Opening(row) == parseInt(row.OpeningRank).v

\* C1: the dataset load is performed exactly once per process lifetime: at
\* most one call of loadCSVData is ever started, also when several requests
\* arrive before the first load has completed.
C1_LoadStartedOnce == loadsStarted <= 1

\* C2: the record store is immutable once built: from a state with
\* dataLoaded set, no step assigns records again.
C2_StoreImmutable == [][dataLoaded => recordsWrites' = recordsWrites]_vars

\* The rows of the store that rules (1)-(4) admit to the advanced tier and
\* to the main tier, for the query of the last search.
CategoryRule(row) ==
  \E code \in DOMAIN reservations :
     code = locals.resver /\ row.SeatType = reservations[code]

GenderRule(row) ==
  IF locals.gend = "F" THEN row.Gender \in {FO, GN} ELSE row.Gender = GN

RankRule(row, threshold) ==
  threshold.k = "num" /\ Closing(row) >= threshold.v

AdvEligible ==
  {row \in SeqToSet(records) :
     /\ row.Type = "IIT" /\ row.Quota = "AI"
     /\ CategoryRule(row) /\ GenderRule(row)
     /\ RankRule(row, locals.advrankcorrected)}

MainEligible ==
  {row \in SeqToSet(records) :
     /\ row.Type # "IIT"
     /\ (row.Quota = "AI" \/ parseInt(row.StateId) = locals.stid)
     /\ CategoryRule(row) /\ GenderRule(row)
     /\ RankRule(row, locals.mainrankcorrected)}

\* C3: for each tier the result of the filter, before truncation, is exactly
\* the set of stored rows that satisfy the tier rule, the category rule, the
\* gender rule and the rank rule; the advanced result is empty when the
\* query has no advanced rank (the parameter is absent, or is 0, the value
\* the handler gives an absent one).
NoAdvancedRank == locals.q.adv = Undefined \/ parseInt(locals.q.adv) = Num(0)

C3_FilterExact ==
  Ranked =>
    /\ SeqToSet(locals.mainsFiltered) = MainEligible
    /\ Len(locals.mainsFiltered) = Cardinality(MainEligible)
    /\ SeqToSet(locals.advFiltered) =
         (IF NoAdvancedRank THEN {} ELSE AdvEligible)
    /\ Len(locals.advFiltered) = Cardinality(SeqToSet(locals.advFiltered))

\* A female query from state 7 keeps a home-state row of that state and
\* drops a non-IIT row of another category.
C3_Witness ==
  /\ Ranked
  /\ locals.gend = "F"
  /\ locals.stid = Num(7)
  /\ \E row \in SeqToSet(locals.mainsFiltered) : row.Quota # "AI"
  /\ \E row \in SeqToSet(records) :
        row.Type # "IIT" /\ row \notin SeqToSet(locals.mainsFiltered)

\* C4: a search whose reservation code is outside the table is answered with
\* a caller error (status 400), not with the 404 of a search without
\* results, and returns no rows.
C4_UnknownCodeRejected ==
  (locals.stage # "none" /\ locals.resver \notin DOMAIN reservations) =>
    (resp.status = 400 /\ resp.adv = NoRows /\ resp.mains = NoRows)

\* C5: a search whose tolerance is negative or not finite is answered with a
\* caller error (status 400) and never reaches the rank comparison.
C5_InvalidToleranceRejected ==
  (locals.stage # "none"
     /\ (locals.tolaran.k # "num" \/ locals.tolaran.v < 0)) =>
    (resp.status = 400 /\ ~Ranked)

\* The numerator of the adjusted rank over the denominator 200: the
\* tolerance is in halves.
Numerator(rank) ==
  rank.v * (200 - (IF locals.gend = "F" THEN 2 ELSE 1) * locals.tolaran.v)

IsFloorOf(v, n) == v.k = "num" /\ 200 * v.v <= n /\ n < 200 * (v.v + 1)
IsCeilingOf(v, n) == v.k = "num" /\ 200 * (v.v - 1) < n /\ n <= 200 * v.v

\* C6 as stated: with a finite tolerance both adjusted ranks are
\* floor(rank * (100 - multiplier * tolerance) / 100), also when that is
\* zero or negative.
C6_AdjustedRankIsFloor ==
  (Ranked /\ locals.tolaran.k = "num") =>
    /\ IsFloorOf(locals.mainrankcorrected, Numerator(locals.mainrank))
    /\ IsFloorOf(locals.advrankcorrected, Numerator(locals.adv))

IsTruncationOf(v, n) == IF n >= 0 THEN IsFloorOf(v, n) ELSE IsCeilingOf(v, n)

\* C6 as amended: with a finite tolerance both adjusted ranks are
\* rank * (100 - multiplier * tolerance) / 100 rounded toward zero (the floor
\* when the quotient is not negative, the ceiling when it is); with an
\* infinite tolerance both are NaN.
C6_AdjustedRankIsTruncation ==
  Ranked =>
    IF locals.tolaran.k = "num"
    THEN /\ IsTruncationOf(locals.mainrankcorrected, Numerator(locals.mainrank))
         /\ IsTruncationOf(locals.advrankcorrected, Numerator(locals.adv))
    ELSE isNaN(locals.mainrankcorrected) /\ isNaN(locals.advrankcorrected)

\* A tolerance over 100 / multiplier gives a negative quotient that is no
\* integer.
C6_Witness ==
  /\ Ranked
  /\ locals.tolaran.k = "num"
  /\ Numerator(locals.adv) < 0
  /\ Numerator(locals.adv) % 200 # 0
  /\ locals.gend = "F"

IsPrefix(s, t) == Len(s) <= Len(t) /\ s = SubSeq(t, 1, Len(s))

TruncatedTo(out, ranked, cap) ==
  /\ Len(out) = Max(0, Min(cap, Len(ranked)))
  /\ Len(out) <= Max(0, cap)
  /\ IsPrefix(out, ranked)

\* C7: each returned sequence has min(cap, number of rows that passed the
\* filter) elements, never more than cap, and they are the first elements of
\* the ranked sequence.  (A negative cap is read as the cap 0.)
C7_TruncationExact ==
  (Ranked /\ resp.status = 200) =>
    /\ TruncatedTo(resp.adv, locals.advSorted, locals.reqlen.v)
    /\ TruncatedTo(resp.mains, locals.mainsSorted, locals.reqlen.v)

\* truncate(ranked, cap) of the specification: the first min(cap, length)
\* elements, none when the cap is negative.
Truncate(ranked, cap) == SubSeq(ranked, 1, Max(0, Min(cap, Len(ranked))))

BothTiersTruncateToNothing ==
  /\ Truncate(locals.advSorted, locals.reqlen.v) = NoRows
  /\ Truncate(locals.mainsSorted, locals.reqlen.v) = NoRows

\* C8: a search that passes validation is answered 404 'No results found'
\* exactly when both truncated sequences are empty; otherwise it is answered
\* with a result, of which one sequence is not empty.
C8_NoResultsIffEmpty ==
  Ranked =>
    /\ resp.status \in {200, 404}
    /\ resp.status = 404 <=> BothTiersTruncateToNothing
    /\ resp.status = 200 => (resp.adv # NoRows \/ resp.mains # NoRows)

\* The orders in which the array s can be stored.
Perms(s) ==
  {[i \in 1..Len(s) |-> s[f[i]]] :
     f \in {g \in [1..Len(s) -> 1..Len(s)] : IsInjective(g)}}

\* C9 as stated: sorting any permutation of the rows a filter kept gives the
\* sequence the search computed.
C9_RankingIgnoresOrder ==
  Ranked =>
    /\ \A p \in Perms(locals.advFiltered) : SortRows(p) = locals.advSorted
    /\ \A p \in Perms(locals.mainsFiltered) : SortRows(p) = locals.mainsSorted

Keys(rows) == [i \in 1..Len(rows) |-> <<Closing(rows[i]), Opening(rows[i])>>]
DistinctKeys(rows) == IsInjective(Keys(rows))

RankingIgnoresOrderUpToTies(filtered, sorted) ==
  \A p \in Perms(filtered) :
     /\ Keys(SortRows(p)) = Keys(sorted)
     /\ DistinctKeys(filtered) => SortRows(p) = sorted

\* C9 as amended: sorting any permutation of the rows a filter kept gives the
\* same sequence of (closing rank, opening rank) pairs, and the same sequence
\* of rows when no two of them share both ranks.
C9_RankingIgnoresOrderUpToTies ==
  Ranked =>
    /\ RankingIgnoresOrderUpToTies(locals.advFiltered, locals.advSorted)
    /\ RankingIgnoresOrderUpToTies(locals.mainsFiltered, locals.mainsSorted)

\* Two rows that close at the same rank and open at different ranks are
\* stored in the other order.
C9_Witness ==
  /\ Ranked
  /\ Len(locals.advFiltered) = 2
  /\ Closing(locals.advFiltered[1]) = Closing(locals.advFiltered[2])
  /\ Opening(locals.advFiltered[1]) > Opening(locals.advFiltered[2])
  /\ locals.advSorted # locals.advFiltered

InOrder(rows) ==
  \A i \in 1..(Len(rows) - 1) :
     /\ Closing(rows[i]) <= Closing(rows[i + 1])
     /\ Closing(rows[i]) = Closing(rows[i + 1]) =>
          Opening(rows[i]) <= Opening(rows[i + 1])

\* C10: each returned sequence is in ascending order of closing rank, and
\* adjacent rows of equal closing rank are in ascending order of opening
\* rank, also when a row opens after it closes.
C10_ResultInOrder ==
  (Ranked /\ resp.status = 200) => (InOrder(resp.adv) /\ InOrder(resp.mains))

\* A result of two rows of equal closing rank, stored in the other order, of
\* which one opens after it closes.
C10_Witness ==
  /\ Ranked
  /\ resp.status = 200
  /\ Len(resp.adv) = 2
  /\ resp.adv # locals.advFiltered
  /\ Closing(resp.adv[1]) = Closing(resp.adv[2])
  /\ Opening(resp.adv[2]) > Closing(resp.adv[2])

\* C11: the loaded flag is monotonic: once a load has succeeded and
\* dataLoaded is set, no step (in particular the failure of another load
\* that was already in flight) clears it, and so no step after that starts
\* a load again.
C11_LoadedFlagMonotonic ==
  [][dataLoaded => (dataLoaded' /\ loadsStarted' = loadsStarted)]_vars

====
